---- MODULE Spec2Model ----
(***************************************************************************)
(* Two units of the CARLA tree:                                            *)
(*   - Examples/CppClient/main.cpp: the example client, a straight-line    *)
(*     sequence of client-library calls inside one try block with two      *)
(*     catch clauses;                                                      *)
(*   - Carla/OpenDrive/OpenDrive.cpp: the routines that locate and load    *)
(*     the .xodr file of a map.                                            *)
(* The client is checked under Spec, the OpenDrive routines under          *)
(* SpecOpenDrive.  Each specification leaves the other unit's variables    *)
(* at their idle values.                                                   *)
(***************************************************************************)
EXTENDS Integers, Sequences, FiniteSets, TLC

VARIABLES
  \* ---- main.cpp ----
  argc,        \* main's argc
  argv,        \* main's argv; C's argv[i] is argv[i + 1] here
  pc,          \* the statement main is about to execute
  host,        \* std::string host (line 82)
  port,        \* uint16_t port (line 83)
  calls,       \* the client-library calls issued so far, in order
  choice,      \* the last RandomChoice invocation: which list, its size, the index drawn
  spawned,     \* SpawnActor returned an actor (line 120)
  destroyed,   \* vehicle->Destroy() completed (line 167)
  raised,      \* the exception thrown out of the try block, if any
  stdout,      \* what was written to std::cout
  exitCode,    \* main's return value, Running until it returns
  \* ---- OpenDrive.cpp ----
  withEditor,  \* the build's WITH_EDITOR
  files,       \* the files the file system holds
  op,          \* the last routine called, with its arguments
  ret,         \* what that routine returned
  log,         \* the UE_LOG lines that call emitted
  searched,    \* FindFilesRecursive was called during that call
  filesFound,  \* what FindFilesRecursive listed during that call
  located,     \* the path that call settled on, empty when it found none
  loaded       \* LoadFileToString during that call: "none" (not called), "ok", "failed"

clientVars == <<argc, argv, pc, host, port, calls, choice, spawned, destroyed,
                raised, stdout, exitCode>>
odrVars == <<withEditor, files, op, ret, log, searched, filesFound, located, loaded>>
vars == <<argc, argv, pc, host, port, calls, choice, spawned, destroyed,
          raised, stdout, exitCode,
          withEditor, files, op, ret, log, searched, filesFound, located, loaded>>

\* ------------------------------------------------------------------------
\* Bounds
\* ------------------------------------------------------------------------
\* largest argc tried
MaxArgc == 4
\* largest list a server call returns (maps, blueprints, colours, spawn points)
MaxLen == 2
\* largest number of files in the file system
MaxFiles == 3

\* ------------------------------------------------------------------------
\* main.cpp: values
\* ------------------------------------------------------------------------
None == "none"
Running == "running"
\* The routines are static and synchronous: a call starts when no result is
\* waiting to be taken.
NoCall == [name |-> None, args |-> << >>]
\* No exception has been thrown.
NoException == [kind |-> None, what |-> None, at |-> None]
\* A call of the client library, as recorded in calls.
Call(fn, args) == [fn |-> fn, args |-> args]

\* int is 32 bits wide; std::stoi throws out_of_range outside [IntMin, IntMax]
IntMax == 2147483647
IntMin == -IntMax - 1
\* uint16_t holds values modulo 2^16
PortModulus == 65536
DefaultHost == "localhost"
DefaultPort == 2000

Whitespace == {" "}
Digits == {"0", "1", "2", "3", "4", "5", "6", "7", "8", "9"}
DigitVal == [c \in Digits |->
               CASE c = "0" -> 0 [] c = "1" -> 1 [] c = "2" -> 2 [] c = "3" -> 3
                 [] c = "4" -> 4 [] c = "5" -> 5 [] c = "6" -> 6 [] c = "7" -> 7
                 [] c = "8" -> 8 [] c = "9" -> 9]

\* The strings tried as argv[2], character by character.
PortStrings ==
  { <<"2", "0", "0", "0">>,
    <<"8", "0">>,
    <<"6", "7", "5", "3", "6">>,
    <<"6", "5", "5", "3", "6">>,
    <<"-", "1">>,
    <<" ", "8", "0">>,
    <<"+", "7">>,
    <<"1", "2", "a">>,
    <<"a", "b", "c">>,
    <<"-">>,
    << >>,
    <<"2", "1", "4", "7", "4", "8", "3", "6", "4", "8">>,
    <<"-", "2", "1", "4", "7", "4", "8", "3", "6", "4", "8">>,
    <<"-", "2", "1", "4", "7", "4", "8", "3", "6", "4", "9">> }
\* The strings tried as argv[1].
HostStrings == {"localhost", "10.0.0.5"}

\* The argument vectors of length n: program name, host, port, then anything.
ArgvOfLen(n) ==
  IF n = 0 THEN { << >> }
  ELSE IF n = 1 THEN { <<"prog">> }
  ELSE IF n = 2 THEN { <<"prog", h>> : h \in HostStrings }
  ELSE { <<"prog", hp[1], hp[2]>> \o [i \in 1..(n - 3) |-> "extra"] :
           hp \in HostStrings \X PortStrings }

\* ------------------------------------------------------------------------
\* main.cpp: std::stoi and ParseArguments (lines 70-77)
\* ------------------------------------------------------------------------
RECURSIVE SkipSpace(_, _)
SkipSpace(s, i) ==
  IF i <= Len(s) /\ s[i] \in Whitespace THEN SkipSpace(s, i + 1) ELSE i

\* Consumes the digits from position i on.  The value is accumulated negated
\* so that IntMin is representable; lo is the least negated value allowed.
RECURSIVE ReadDigits(_, _, _, _, _)
ReadDigits(s, i, acc, over, lo) ==
  IF i <= Len(s) /\ s[i] \in Digits
  THEN LET d == DigitVal[s[i]] IN
       IF over \/ acc < (lo + d + 9) \div 10
       THEN ReadDigits(s, i + 1, acc, TRUE, lo)
       ELSE ReadDigits(s, i + 1, acc * 10 - d, FALSE, lo)
  ELSE [end |-> i, acc |-> acc, over |-> over]

\* std::stoi(str): leading white space, an optional sign, decimal digits;
\* what follows the digits is ignored.  invalid_argument when there is no
\* digit, out_of_range when the value does not fit an int.
stoi(s) ==
  LET b   == SkipSpace(s, 1)
      neg == b <= Len(s) /\ s[b] = "-"
      sgn == b <= Len(s) /\ s[b] \in {"+", "-"}
      d0  == IF sgn THEN b + 1 ELSE b
      r   == ReadDigits(s, d0, 0, FALSE, IF neg THEN IntMin ELSE -IntMax)
  IN IF r.end = d0 THEN [ok |-> FALSE, kind |-> "invalid_argument", what |-> "stoi"]
     ELSE IF r.over THEN [ok |-> FALSE, kind |-> "out_of_range", what |-> "stoi"]
     ELSE [ok |-> TRUE, value |-> IF neg THEN r.acc ELSE -r.acc]

\* A conversion that saturates instead of wrapping.
ToUint16Saturating(v) ==
  IF v < 0 THEN 0 ELSE IF v >= PortModulus THEN PortModulus - 1 ELSE v

\* Conversion of an int to uint16_t.
ToUint16(v) == v % PortModulus

ArgcCheck == "(argc == 1u) || (argc == 3u)"
RangeCheck == "range.size() > 0u"

\* ParseArguments with the count check loosened to "at least one".
ParseArgumentsLooseCount(n, av) ==
  IF ~(n >= 1)
  THEN [ok |-> FALSE, kind |-> "runtime_error", what |-> ArgcCheck]
  ELSE IF n >= 3
  THEN LET p == stoi(av[3]) IN
       IF p.ok THEN [ok |-> TRUE, host |-> av[2], port |-> ToUint16(p.value)]
       ELSE [ok |-> FALSE, kind |-> p.kind, what |-> p.what]
  ELSE [ok |-> TRUE, host |-> DefaultHost, port |-> ToUint16(DefaultPort)]

ParseArguments(n, av) ==
  IF ~((n = 1) \/ (n = 3))
  THEN [ok |-> FALSE, kind |-> "runtime_error", what |-> ArgcCheck]
  ELSE IF n = 3
  THEN LET p == stoi(av[3]) IN
       IF p.ok THEN [ok |-> TRUE, host |-> av[2], port |-> ToUint16(p.value)]
       ELSE [ok |-> FALSE, kind |-> p.kind, what |-> p.what]
  ELSE [ok |-> TRUE, host |-> DefaultHost, port |-> ToUint16(DefaultPort)]

\* ------------------------------------------------------------------------
\* main.cpp: RandomChoice (lines 41-46)
\* ------------------------------------------------------------------------
\* RandomChoice has not been called.
NoChoice == [list |-> None, size |-> 0, indexed |-> FALSE, idx |-> 0]

\* RandomChoice with dist{0, n} and no check.
RandomChoiceOffByOne(n) == { [ok |-> TRUE, idx |-> i] : i \in 0..n }

\* The outcomes of RandomChoice on a range of n elements: the failed check
\* for an empty range, otherwise an index drawn from dist{0, n - 1}.
RandomChoice(n) ==
  IF ~(n > 0)
  THEN { [ok |-> FALSE, idx |-> 0] }
  ELSE { [ok |-> TRUE, idx |-> i] : i \in 0..(n - 1) }

\* ------------------------------------------------------------------------
\* main.cpp: exceptions and the two catch clauses (lines 170-178)
\* ------------------------------------------------------------------------
\* What a client-library call can do: return, or throw the library's timeout
\* exception, or throw another standard exception.
Outcomes == {"ok", "TimeoutException", "exception"}

\* The catch clause that handles an exception of class k: the clauses are
\* tried in order, cc::TimeoutException first, then std::exception.
HandlerForGenericOnly(k) == "catch std::exception"

HandlerFor(k) ==
  IF k = "TimeoutException" THEN "catch TimeoutException" ELSE "catch std::exception"

\* The value each clause returns from main (lines 173 and 177).
ReturnOf(h) == IF h = "catch TimeoutException" THEN 1 ELSE 2

\* What each clause prints (lines 172 and 176).
PrintOf(h, what) ==
  IF h = "catch TimeoutException" THEN <<"\n", what>> ELSE <<"\nException: ", what>>

Throw(k, what) ==
  /\ raised' = [kind |-> k, what |-> what, at |-> pc]
  /\ pc' = "catch"

Cout(line) == stdout' = Append(stdout, line)

\* A library call that is issued again after a timeout.
LibraryCallRetrying(here, name, args, next) ==
  /\ pc = here
  /\ calls' = Append(calls, Call(name, args))
  /\ \E o \in Outcomes :
       IF o = "ok" THEN pc' = next /\ raised' = raised
       ELSE IF o = "TimeoutException" THEN pc' = here /\ raised' = raised
       ELSE Throw(o, name)
  /\ Len(calls) < 24
  /\ UNCHANGED <<argc, argv, host, port, choice, spawned, destroyed, stdout, exitCode>>
  /\ UNCHANGED odrVars

\* A statement that makes one library call and nothing else.
LibraryCall(here, name, args, next) ==
  /\ pc = here
  /\ calls' = Append(calls, Call(name, args))
  /\ \E o \in Outcomes :
       IF o = "ok" THEN pc' = next /\ raised' = raised
       ELSE Throw(o, name)
  /\ UNCHANGED <<argc, argv, host, port, choice, spawned, destroyed, stdout, exitCode>>
  /\ UNCHANGED odrVars

\* A statement std::cout << label << call() << '\n': when the call throws,
\* the label has been written already or not, as the operands were ordered.
LibraryCallPrinted(here, name, next, line) ==
  /\ pc = here
  /\ calls' = Append(calls, Call(name, << >>))
  /\ \E o \in Outcomes :
       IF o = "ok" THEN pc' = next /\ raised' = raised /\ Cout(line)
       ELSE Throw(o, name) /\ (stdout' = stdout \/ Cout(<<line[1], "">>))
  /\ UNCHANGED <<argc, argv, host, port, choice, spawned, destroyed, exitCode>>
  /\ UNCHANGED odrVars

\* A statement that asks the library for a list and applies RandomChoice to it.
ChooseFrom(here, name, list, next) ==
  /\ pc = here
  /\ calls' = Append(calls, Call(name, << >>))
  /\ \E o \in Outcomes :
       IF o = "ok"
       THEN \E n \in 0..MaxLen : \E r \in RandomChoice(n) :
              /\ choice' = [list |-> list, size |-> n, indexed |-> r.ok, idx |-> r.idx]
              /\ IF r.ok THEN pc' = next /\ raised' = raised
                 ELSE Throw("runtime_error", RangeCheck)
       ELSE Throw(o, name) /\ choice' = choice
  /\ UNCHANGED <<argc, argv, host, port, spawned, destroyed, exitCode>>
  /\ UNCHANGED odrVars

\* ------------------------------------------------------------------------
\* main.cpp: main (lines 79-179), one action per statement
\* ------------------------------------------------------------------------
\* host is default-constructed; port has no initial value and is not read
\* before line 84 assigns it, so it is shown as 0 until then.
InitClient ==
  /\ argc \in 0..MaxArgc
  /\ argv \in ArgvOfLen(argc)
  /\ pc = "L84"
  /\ host = ""
  /\ port = 0
  /\ calls = << >>
  /\ choice = NoChoice
  /\ spawned = FALSE
  /\ destroyed = FALSE
  /\ raised = NoException
  /\ stdout = << >>
  /\ exitCode = Running

\* line 84: std::tie(host, port) = ParseArguments(argc, argv)
ParseArgs ==
  /\ pc = "L84"
  /\ LET r == ParseArguments(argc, argv) IN
       IF r.ok
       THEN host' = r.host /\ port' = r.port /\ pc' = "L87" /\ raised' = raised
       ELSE Throw(r.kind, r.what) /\ UNCHANGED <<host, port>>
  /\ UNCHANGED <<argc, argv, calls, choice, spawned, destroyed, stdout, exitCode>>
  /\ UNCHANGED odrVars

\* line 87: std::mt19937_64 rng((std::random_device())()); random_device may
\* throw an exception derived from std::exception.
SeedRng ==
  /\ pc = "L87"
  /\ \/ pc' = "L90" /\ raised' = raised
     \/ Throw("exception", "random_device")
  /\ UNCHANGED <<argc, argv, host, port, calls, choice, spawned, destroyed, stdout, exitCode>>
  /\ UNCHANGED odrVars

\* line 90: auto client = cc::Client(host, port)
CreateClient ==
  /\ pc = "L90"
  /\ LibraryCall("L90", "Client", <<host, port>>, "L91")
\* line 91
SetTimeout ==
  /\ pc = "L91"
  /\ LibraryCall("L91", "SetTimeout", << >>, "L94")
\* line 94
GetClientVersion ==
  /\ pc = "L94"
  /\ LibraryCallPrinted("L94", "GetClientVersion", "L95", <<"Client API version : ", "version">>)
\* line 95
GetServerVersion ==
  /\ pc = "L95"
  /\ LibraryCallPrinted("L95", "GetServerVersion", "L98", <<"Server API version : ", "version">>)
\* line 98: auto town_name = RandomChoice(client.GetAvailableMaps(), rng)
ChooseTown ==
  /\ ChooseFrom("L98", "GetAvailableMaps", "maps", "L99")
  /\ stdout' = stdout
\* lines 99-100: print, then client.LoadWorld(town_name)
LoadWorld ==
  /\ pc = "L99"
  /\ Cout(<<"Loading world: ", "town_name">>)
  /\ calls' = Append(calls, Call("LoadWorld", << >>))
  /\ \E o \in Outcomes :
       IF o = "ok" THEN pc' = "L103" /\ raised' = raised
       ELSE Throw(o, "LoadWorld")
  /\ UNCHANGED <<argc, argv, host, port, choice, spawned, destroyed, exitCode>>
  /\ UNCHANGED odrVars
\* line 103
GetBlueprintLibrary ==
  /\ pc = "L103"
  /\ LibraryCall("L103", "GetBlueprintLibrary", << >>, "L104")
\* lines 104-105: auto vehicles = Filter("vehicle"); RandomChoice(*vehicles, rng)
ChooseBlueprint ==
  /\ ChooseFrom("L104", "Filter", "vehicles", "L108")
  /\ stdout' = stdout
\* line 108: if (blueprint.ContainsAttribute("color"))
ContainsColor ==
  /\ pc = "L108"
  /\ calls' = Append(calls, Call("ContainsAttribute", << >>))
  /\ \E o \in Outcomes :
       IF o = "ok" THEN (\E has \in BOOLEAN : pc' = IF has THEN "L109" ELSE "L116")
                        /\ raised' = raised
       ELSE Throw(o, "ContainsAttribute")
  /\ UNCHANGED <<argc, argv, host, port, choice, spawned, destroyed, stdout, exitCode>>
  /\ UNCHANGED odrVars
\* line 109
GetAttribute ==
  /\ pc = "L109"
  /\ LibraryCall("L109", "GetAttribute", << >>, "L112")
\* line 112: the argument RandomChoice(attribute.GetRecommendedValues(), rng)
ChooseColor ==
  /\ ChooseFrom("L112", "GetRecommendedValues", "colors", "L110")
  /\ stdout' = stdout
\* lines 110-112: blueprint.SetAttribute("color", <the chosen value>)
SetAttribute ==
  /\ pc = "L110"
  /\ LibraryCall("L110", "SetAttribute", << >>, "L116")
\* line 116
GetMap ==
  /\ pc = "L116"
  /\ LibraryCall("L116", "GetMap", << >>, "L117")
\* line 117: RandomChoice(map->GetRecommendedSpawnPoints(), rng)
ChooseSpawnPoint ==
  /\ ChooseFrom("L117", "GetRecommendedSpawnPoints", "spawn points", "L120")
  /\ stdout' = stdout
\* line 120: auto actor = world.SpawnActor(blueprint, transform)
SpawnActor ==
  /\ pc = "L120"
  /\ calls' = Append(calls, Call("SpawnActor", << >>))
  /\ \E o \in Outcomes :
       IF o = "ok" THEN pc' = "L121" /\ raised' = raised /\ spawned' = TRUE
       ELSE Throw(o, "SpawnActor") /\ spawned' = spawned
  /\ UNCHANGED <<argc, argv, host, port, choice, destroyed, stdout, exitCode>>
  /\ UNCHANGED odrVars
\* line 121: prints the id the actor handle holds; no request is made
GetDisplayId ==
  /\ pc = "L121"
  /\ calls' = Append(calls, Call("GetDisplayId", << >>))
  /\ Cout(<<"Spawned ", "display id">>)
  /\ pc' = "L127"
  /\ UNCHANGED <<argc, argv, host, port, choice, spawned, destroyed, raised, exitCode>>
  /\ UNCHANGED odrVars
\* line 127
ApplyControl ==
  /\ pc = "L127"
  /\ LibraryCall("L127", "ApplyControl", << >>, "L130")
\* line 130
GetSpectator ==
  /\ pc = "L130"
  /\ LibraryCall("L130", "GetSpectator", << >>, "L135")
\* line 135
SetTransform ==
  /\ pc = "L135"
  /\ LibraryCall("L135", "SetTransform", << >>, "L167")
\* main without the call of Destroy.
DestroySkipped ==
  /\ pc = "L167"
  /\ pc' = "L168"
  /\ UNCHANGED <<argc, argv, host, port, calls, choice, spawned, destroyed, raised,
                 stdout, exitCode>>
  /\ UNCHANGED odrVars

\* line 167: vehicle->Destroy()
Destroy ==
  /\ pc = "L167"
  /\ calls' = Append(calls, Call("Destroy", << >>))
  /\ \E o \in Outcomes :
       IF o = "ok" THEN pc' = "L168" /\ raised' = raised /\ destroyed' = TRUE
       ELSE Throw(o, "Destroy") /\ destroyed' = destroyed
  /\ UNCHANGED <<argc, argv, host, port, choice, spawned, stdout, exitCode>>
  /\ UNCHANGED odrVars
\* line 168 and the end of main: print, leave the try block, return 0
Finish ==
  /\ pc = "L168"
  /\ Cout(<<"Actors destroyed.", "">>)
  /\ exitCode' = 0
  /\ pc' = "done"
  /\ UNCHANGED <<argc, argv, host, port, calls, choice, spawned, destroyed, raised>>
  /\ UNCHANGED odrVars
\* lines 170-178: the catch clause that matches prints and returns
Catch ==
  /\ pc = "catch"
  /\ LET h == HandlerFor(raised.kind) IN
       /\ Cout(PrintOf(h, raised.what))
       /\ exitCode' = ReturnOf(h)
  /\ pc' = "done"
  /\ UNCHANGED <<argc, argv, host, port, calls, choice, spawned, destroyed, raised>>
  /\ UNCHANGED odrVars

Init ==
  /\ InitClient
  /\ withEditor = FALSE
  /\ files = {}
  /\ op = NoCall
  /\ ret = << >>
  /\ log = << >>
  /\ searched = FALSE
  /\ filesFound = << >>
  /\ located = << >>
  /\ loaded = None

Next ==
  \/ ParseArgs
  \/ SeedRng
  \/ CreateClient
  \/ SetTimeout
  \/ GetClientVersion
  \/ GetServerVersion
  \/ ChooseTown
  \/ LoadWorld
  \/ GetBlueprintLibrary
  \/ ChooseBlueprint
  \/ ContainsColor
  \/ GetAttribute
  \/ ChooseColor
  \/ SetAttribute
  \/ GetMap
  \/ ChooseSpawnPoint
  \/ SpawnActor
  \/ GetDisplayId
  \/ ApplyControl
  \/ GetSpectator
  \/ SetTransform
  \/ Destroy
  \/ Finish
  \/ Catch

Spec == Init /\ [][Next]_vars

\* ------------------------------------------------------------------------
\* OpenDrive.cpp: strings and the file system
\* ------------------------------------------------------------------------
\* An FString is a sequence of tokens; "/" is a token of its own, so that a
\* path has one representation however it was concatenated.
EmptyString == << >>
PIEPrefix == <<"UEDPIE_0_">>
XodrExt == <<".xodr">>
Wildcard == <<"*">>
\* FPaths::ProjectContentDir()
ProjectContentDir == <<"Content", "/">>
\* TEXT("Carla/Maps/OpenDrive/")
DefaultSubdir == <<"Carla", "/", "Maps", "/", "OpenDrive", "/">>

\* FString::StartsWith / EndsWith: false for an empty argument.
StartsWith(s, p) ==
  /\ Len(p) > 0
  /\ Len(p) <= Len(s)
  /\ SubSeq(s, 1, Len(p)) = p
EndsWith(s, p) ==
  /\ Len(p) > 0
  /\ Len(p) <= Len(s)
  /\ SubSeq(s, Len(s) - Len(p) + 1, Len(s)) = p
\* FString::RemoveFromStart / RemoveFromEnd
RemoveFromStart(s, p) ==
  IF StartsWith(s, p) THEN SubSeq(s, Len(p) + 1, Len(s)) ELSE s
RemoveFromEnd(s, p) ==
  IF EndsWith(s, p) THEN SubSeq(s, 1, Len(s) - Len(p)) ELSE s

\* The #if WITH_EDITOR blocks (lines 21-29, 62-69, 124-131).
CorrectedMapName(name) ==
  IF withEditor THEN RemoveFromStart(name, PIEPrefix) ELSE name

\* The map names the routines are called with.
MapNames == { <<"Town01">>, <<"Town02">>, <<"UEDPIE_0_", "Town01">> }
\* The directories that may hold files; the last one is outside the content
\* directory.
Directories ==
  { ProjectContentDir \o DefaultSubdir,
    <<"Content", "/", "Custom", "/", "OpenDrive", "/">>,
    <<"Content", "/", "Custom", "/", "Town01", "/", "OpenDrive", "/">>,
    <<"Saved", "/">> }
\* Every file the file system may hold.
FileUniverse == { d \o n \o XodrExt : d \in Directories, n \in MapNames }
\* What GameMode->GetFullMapPath() may return.
MapDirs ==
  { <<"Content", "/", "Carla", "/", "Maps">>,
    <<"Content", "/", "Custom">>,
    <<"Content", "/", "Custom", "/", "Town01">> }
\* The paths GetXODRByPath is called with.
XODRPaths == FileUniverse \cup MapDirs
\* What a file may contain.
Contents == { EmptyString, <<"<OpenDRIVE/>">> }

\* The position after the last "/" of a path.
RECURSIVE NameStart(_, _)
NameStart(path, i) ==
  IF i = 0 THEN 1 ELSE IF path[i] = "/" THEN i + 1 ELSE NameStart(path, i - 1)
FileNameOf(path) == SubSeq(path, NameStart(path, Len(path)), Len(path))

\* IFileManager::FileExists
FileExists(path) == path \in files

\* A file name against a pattern whose only wildcard is a leading "*".
Matches(name, pattern) ==
  IF StartsWith(pattern, Wildcard)
  THEN LET rest == SubSeq(pattern, 2, Len(pattern)) IN
         rest = EmptyString \/ EndsWith(name, rest)
  ELSE name = pattern

\* The file lies in the directory start or below it.
Under(start, path) ==
  LET dir == IF EndsWith(start, <<"/">>) THEN start ELSE start \o <<"/">> IN
    StartsWith(path, dir) /\ Len(path) > Len(dir)

\* All orders in which the elements of a set may be listed.
Listings(S) ==
  { l \in [1..Cardinality(S) -> S] : \A i, j \in 1..Cardinality(S) : l[i] = l[j] => i = j }

\* IFileManager::FindFilesRecursive(out, start, pattern, true, false, false):
\* the files under start whose name matches, in whatever order the
\* directories are walked.
FindFilesRecursive(start, pattern) ==
  Listings({ f \in files : Under(start, f) /\ Matches(FileNameOf(f), pattern) })

\* ------------------------------------------------------------------------
\* OpenDrive.cpp: FindPathToXODRFile (lines 17-55)
\* ------------------------------------------------------------------------
\* The file name the routine looks for: the map name without the editor's
\* prefix, plus ".xodr" (lines 19-31).
XodrFileName(InMapName) == CorrectedMapName(InMapName) \o XodrExt
\* lines 33-36
DefaultFilePath(InMapName) ==
  ProjectContentDir \o DefaultSubdir \o XodrFileName(InMapName)

\* The routine without the test of the default path.
FindPathSearchOnly(InMapName) ==
  { [path |-> IF Len(l) > 0 THEN l[1] ELSE EmptyString,
     searched |-> TRUE, found |-> l] :
      l \in FindFilesRecursive(ProjectContentDir, XodrFileName(InMapName)) }

\* The routine returning the last file listed instead of the first.
FindPathLastListed(InMapName) ==
  IF FileExists(DefaultFilePath(InMapName))
  THEN { [path |-> DefaultFilePath(InMapName), searched |-> FALSE, found |-> << >>] }
  ELSE { [path |-> IF Len(l) > 0 THEN l[Len(l)] ELSE EmptyString,
          searched |-> TRUE, found |-> l] :
           l \in FindFilesRecursive(ProjectContentDir, XodrFileName(InMapName)) }

\* The outcomes of the routine: what it returns, whether it searched, and
\* what the search listed.
FindPathToXODRFile(InMapName) ==
  IF FileExists(DefaultFilePath(InMapName))
  THEN { [path |-> DefaultFilePath(InMapName), searched |-> FALSE, found |-> << >>] }
  ELSE { [path |-> IF Len(l) > 0 THEN l[1] ELSE EmptyString,
          searched |-> TRUE, found |-> l] :
           l \in FindFilesRecursive(ProjectContentDir, XodrFileName(InMapName)) }

\* ------------------------------------------------------------------------
\* OpenDrive.cpp: the UE_LOG lines and the load (lines 81-96, 103-118, 141-152)
\* ------------------------------------------------------------------------
LogLine(level, text, arg) == [level |-> level, text |-> text, arg |-> arg]
FailedToFind(name) == LogLine("Error", "Failed to find OpenDrive file for map", name)
LoadedFile(path) == LogLine("Log", "Loaded OpenDrive file", path)
FailedToLoad(path) == LogLine("Error", "Failed to load OpenDrive file", path)

\* FFileHelper::LoadFileToString(Content, path) on a Content that was just
\* constructed: true with the file's text in Content, or false with Content
\* as it was.
LoadFileToString ==
  { [ok |-> TRUE, content |-> c] : c \in Contents }
    \cup { [ok |-> FALSE, content |-> EmptyString] }

\* The if / else if / else of GetXODR and LoadXODR (lines 83-94, 105-116):
\* the log line and the content for a located path and a load outcome.
ReportWithElse(name, path, ld) ==
  IF path = EmptyString THEN [log |-> <<FailedToFind(name)>>, content |-> EmptyString, loaded |-> None]
  ELSE IF ld.ok THEN [log |-> <<LoadedFile(path)>>, content |-> ld.content, loaded |-> "ok"]
  ELSE [log |-> <<FailedToLoad(path)>>, content |-> ld.content, loaded |-> "failed"]

\* The if / else if of GetXODRByPath (lines 143-150): there is no else.
ReportNoElse(name, path, ld) ==
  IF path = EmptyString THEN [log |-> <<FailedToFind(name)>>, content |-> EmptyString, loaded |-> None]
  ELSE IF ld.ok THEN [log |-> <<LoadedFile(path)>>, content |-> ld.content, loaded |-> "ok"]
  ELSE [log |-> << >>, content |-> ld.content, loaded |-> "failed"]

\* ------------------------------------------------------------------------
\* OpenDrive.cpp: the routines, one action per call
\* ------------------------------------------------------------------------
InitOpenDrive ==
  /\ argc = 1
  /\ argv = <<"prog">>
  /\ pc = "idle"
  /\ host = ""
  /\ port = 0
  /\ calls = << >>
  /\ choice = NoChoice
  /\ spawned = FALSE
  /\ destroyed = FALSE
  /\ raised = NoException
  /\ stdout = << >>
  /\ exitCode = Running
  /\ withEditor \in BOOLEAN
  /\ files \in { S \in SUBSET FileUniverse : Cardinality(S) <= MaxFiles }
  /\ op = NoCall
  /\ ret = EmptyString
  /\ log = << >>
  /\ searched = FALSE
  /\ filesFound = << >>
  /\ located = EmptyString
  /\ loaded = None

\* FString UOpenDrive::FindPathToXODRFile(const FString &InMapName)
CallFindPathToXODRFile ==
  /\ op = NoCall
  /\ \E name \in MapNames : \E r \in FindPathToXODRFile(name) :
    /\ op' = [name |-> "FindPathToXODRFile", args |-> <<name>>]
    /\ ret' = r.path
    /\ located' = r.path
    /\ searched' = r.searched
    /\ filesFound' = r.found
    /\ log' = << >>
    /\ loaded' = None
    /\ UNCHANGED <<withEditor, files>>
    /\ UNCHANGED clientVars

\* FString UOpenDrive::LoadXODR(const FString &MapName), lines 99-119
CallLoadXODR ==
  /\ op = NoCall
  /\ \E name \in MapNames : \E r \in FindPathToXODRFile(name) : \E ld \in LoadFileToString :
    LET rep == ReportWithElse(name, r.path, ld) IN
    /\ op' = [name |-> "LoadXODR", args |-> <<name>>]
    /\ located' = r.path
    /\ searched' = r.searched
    /\ filesFound' = r.found
    /\ log' = rep.log
    /\ loaded' = rep.loaded
    /\ ret' = rep.content
    /\ UNCHANGED <<withEditor, files>>
    /\ UNCHANGED clientVars

\* FString UOpenDrive::GetXODR(const UWorld *World), lines 57-97; the world
\* gives the map name and the game mode the map's directory.
CallGetXODR ==
  /\ op = NoCall
  /\ \E worldName \in MapNames : \E MapDir \in MapDirs :
    LET MapName   == CorrectedMapName(worldName)
        FolderDir == MapDir \o <<"/", "OpenDrive", "/">>
        FileName  == IF EndsWith(MapDir, MapName) THEN Wildcard ELSE MapName
    IN \E Files \in FindFilesRecursive(FolderDir, FileName \o XodrExt) :
       \E ld \in LoadFileToString :
         LET path == IF Len(Files) = 0 THEN EmptyString ELSE Files[1]
             rep  == ReportWithElse(MapName, path, ld) IN
         /\ op' = [name |-> "GetXODR", args |-> <<worldName, MapDir>>]
         /\ located' = path
         /\ searched' = TRUE
         /\ filesFound' = Files
         /\ log' = rep.log
         /\ loaded' = rep.loaded
         /\ ret' = rep.content
         /\ UNCHANGED <<withEditor, files>>
         /\ UNCHANGED clientVars

\* FString UOpenDrive::GetXODRByPath(FString XODRPath, FString MapName),
\* lines 121-153
CallGetXODRByPath ==
  /\ op = NoCall
  /\ \E XODRPath \in XODRPaths : \E name \in MapNames :
    LET MapName   == CorrectedMapName(name)
        FileName  == IF EndsWith(XODRPath, MapName) THEN Wildcard ELSE MapName
        FolderDir == RemoveFromEnd(XODRPath, MapName \o XodrExt)
    IN \E Files \in FindFilesRecursive(FolderDir, FileName \o XodrExt) :
       \E ld \in LoadFileToString :
         LET path == IF Len(Files) = 0 THEN EmptyString ELSE Files[1]
             rep  == ReportNoElse(MapName, path, ld) IN
         /\ op' = [name |-> "GetXODRByPath", args |-> <<XODRPath, name>>]
         /\ located' = path
         /\ searched' = TRUE
         /\ filesFound' = Files
         /\ log' = rep.log
         /\ loaded' = rep.loaded
         /\ ret' = rep.content
         /\ UNCHANGED <<withEditor, files>>
         /\ UNCHANGED clientVars

\* The caller takes the returned string; the next call starts afresh.
TakeResult ==
  /\ op # NoCall
  /\ op' = NoCall
  /\ ret' = EmptyString
  /\ log' = << >>
  /\ searched' = FALSE
  /\ filesFound' = << >>
  /\ located' = EmptyString
  /\ loaded' = None
  /\ UNCHANGED <<withEditor, files>>
  /\ UNCHANGED clientVars

NextOpenDrive ==
  \/ TakeResult
  \/ CallFindPathToXODRFile
  \/ CallLoadXODR
  \/ CallGetXODR
  \/ CallGetXODRByPath

SpecOpenDrive == InitOpenDrive /\ [][NextOpenDrive]_vars

\* ------------------------------------------------------------------------
\* main.cpp: properties
\* ------------------------------------------------------------------------
Last(q) == q[Len(q)]
Issued(fn) == \E i \in 1..Len(calls) : calls[i].fn = fn
TimesIssued(fn) == Cardinality({ i \in 1..Len(calls) : calls[i].fn = fn })
Returned == pc = "done"
\* main has returned c.
Exited(c) == Returned /\ exitCode = c
\* The classes of exception other than the library's timeout.
OtherStandardExceptions == {"exception", "runtime_error", "invalid_argument", "out_of_range"}

\* C1: main returns 0 exactly when every statement of the try block completed
\* without throwing, 1 exactly when what was thrown is the library's timeout
\* exception, 2 exactly when it is another standard exception (the failed
\* checks of ParseArguments and RandomChoice among them); in both failing
\* cases the exception's message is the last thing printed.
C1_ExitCodeClassifiesOutcome ==
  /\ Exited(0) <=> (Returned /\ raised = NoException)
  /\ Exited(0) => (destroyed /\ Last(calls).fn = "Destroy"
                     /\ Last(stdout)[1] = "Actors destroyed.")
  /\ Exited(1) <=> (Returned /\ raised.kind = "TimeoutException")
  /\ Exited(2) <=> (Returned /\ raised.kind \in OtherStandardExceptions)
  /\ (Returned /\ raised.what \in {ArgcCheck, RangeCheck}) => Exited(2)
  /\ (Exited(1) \/ Exited(2)) => Last(stdout)[2] = raised.what
  /\ Returned => exitCode \in {0, 1, 2}

\* A run in which a call made after the actor was spawned timed out.
C1_Witness ==
  /\ Exited(1)
  /\ raised.kind = "TimeoutException"
  /\ spawned
  /\ Last(stdout) = <<"\n", raised.what>>

\* C2: ParseArguments accepts argc = 1 and argc = 3 and no other count; on a
\* rejected count main returns 2 and has created no client and made no call.
C2_ArgumentCount ==
  (pc # "L84") =>
    /\ (argc \notin {1, 3}) =>
         /\ raised.kind = "runtime_error"
         /\ raised.what = ArgcCheck
         /\ calls = << >>
         /\ pc \in {"catch", "done"}
         /\ Returned => Exited(2)
    /\ (argc \in {1, 3}) => raised.what # ArgcCheck

\* main was started with argc = 4 and returned 2 without any call.
C2_Witness ==
  /\ argc = 4
  /\ Exited(2)
  /\ calls = << >>
  /\ Last(stdout) = <<"\nException: ", ArgcCheck>>

\* C3: with argc = 1 ParseArguments returns ("localhost", 2000); with
\* argc = 3 it returns argv[1] and the integer parsed from argv[2], and the
\* default pair's values only when those were the ones passed.
C3_ParsedPair ==
  (pc \notin {"L84"} /\ raised.at # "L84") =>
    /\ (argc = 1) => (host = DefaultHost /\ port = DefaultPort)
    /\ (argc = 3) =>
         /\ host = argv[2]
         /\ port = stoi(argv[3]).value
         /\ (host = DefaultHost /\ port = DefaultPort) =>
              (argv[2] = DefaultHost /\ stoi(argv[3]).value = DefaultPort)

\* C7: the calls to the server are issued in one fixed order, each at most
\* once, and the call that fails is the last one issued.
ServerCallOrder ==
  <<"Client", "GetClientVersion", "GetServerVersion", "GetAvailableMaps", "LoadWorld",
    "Filter", "GetRecommendedSpawnPoints", "SpawnActor", "ApplyControl",
    "SetTransform", "Destroy">>
IsServerCall(fn) == \E k \in 1..Len(ServerCallOrder) : ServerCallOrder[k] = fn
PlaceInOrder(fn) == CHOOSE k \in 1..Len(ServerCallOrder) : ServerCallOrder[k] = fn
\* What a statement that is no library call throws.
LocalFailures == {ArgcCheck, RangeCheck, "stoi", "random_device"}

C7_FixedOrderNoRetry ==
  /\ \A i, j \in 1..Len(calls) :
       (i < j /\ IsServerCall(calls[i].fn) /\ IsServerCall(calls[j].fn))
         => PlaceInOrder(calls[i].fn) < PlaceInOrder(calls[j].fn)
  /\ \A i, j \in 1..Len(calls) : (calls[i].fn = calls[j].fn) => i = j
  /\ (raised # NoException) =>
       /\ pc \in {"catch", "done"}
       /\ (raised.what \notin LocalFailures) => Last(calls).fn = raised.what
       /\ (raised.what = RangeCheck) =>
            Last(calls).fn \in {"GetAvailableMaps", "Filter", "GetRecommendedValues",
                                "GetRecommendedSpawnPoints"}

\* SetTransform failed after every call before it was issued once; Destroy
\* was not issued.
C7_Witness ==
  /\ Returned
  /\ raised.what = "SetTransform"
  /\ Last(calls).fn = "SetTransform"
  /\ Issued("Client") /\ Issued("LoadWorld") /\ Issued("SpawnActor")
  /\ ~Issued("Destroy")

\* C8: Destroy is called at most once and only on the actor SpawnActor
\* returned; when main has returned, a spawned actor is left undestroyed
\* exactly when ApplyControl, GetSpectator, SetTransform or Destroy threw, the
\* exit code is then 1 or 2 and nothing was called after the failure; exit
\* code 0 implies the actor was spawned and destroyed.
AfterSpawn == {"L127", "L130", "L135", "L167"}

C8_DestroyOnceNoCleanup ==
  /\ TimesIssued("Destroy") <= 1
  /\ \A i \in 1..Len(calls) :
       (calls[i].fn = "Destroy") =>
         (spawned /\ \E j \in 1..(i - 1) : calls[j].fn = "SpawnActor")
  /\ destroyed => (spawned /\ Issued("Destroy"))
  /\ Returned =>
       /\ (spawned /\ ~destroyed) <=> (raised # NoException /\ raised.at \in AfterSpawn)
       /\ (spawned /\ ~destroyed) =>
            /\ Exited(1) \/ Exited(2)
            /\ Last(calls).fn = raised.what
            /\ Issued("Destroy") => raised.what = "Destroy"
  /\ Exited(0) => (spawned /\ destroyed)

\* ApplyControl failed on a spawned actor: main returned without Destroy.
C8_Witness ==
  /\ Returned
  /\ spawned /\ ~destroyed
  /\ raised.what = "ApplyControl"
  /\ ~Issued("Destroy")

\* C9: RandomChoice indexes a range of n > 0 elements at some i in 0..n-1
\* and throws before indexing an empty range; an empty list of maps,
\* blueprints, colours or spawn points makes main return 2 without the call
\* that would have used the element.
UsedBy(list) ==
  CASE list = "maps" -> {"LoadWorld"}
    [] list = "vehicles" -> {"SetAttribute", "SpawnActor"}
    [] list = "colors" -> {"SetAttribute"}
    [] list = "spawn points" -> {"SpawnActor"}
    [] OTHER -> {}

C9_RandomChoiceInRange ==
  /\ choice.indexed => (choice.size > 0 /\ 0 <= choice.idx /\ choice.idx <= choice.size - 1)
  /\ (choice # NoChoice /\ choice.size > 0) => choice.indexed
  /\ (choice # NoChoice /\ choice.size = 0) =>
       /\ ~choice.indexed
       /\ raised.kind = "runtime_error" /\ raised.what = RangeCheck
       /\ pc \in {"catch", "done"}
       /\ Returned => Exited(2)
       /\ \A fn \in UsedBy(choice.list) : ~Issued(fn)

\* The blueprint has a colour attribute with no recommended value.
C9_Witness ==
  /\ choice.list = "colors"
  /\ choice.size = 0
  /\ Exited(2)
  /\ ~Issued("SetAttribute")

\* ---- what argv[2] denotes, computed apart from stoi ----
RECURSIVE DropSpace(_)
DropSpace(s) == IF s # << >> /\ Head(s) \in Whitespace THEN DropSpace(Tail(s)) ELSE s
HasSign(s) == s # << >> /\ Head(s) \in {"+", "-"}
IsNegative(s) == s # << >> /\ Head(s) = "-"
Unsigned(s) == IF HasSign(s) THEN Tail(s) ELSE s
RECURSIVE DigitPrefix(_)
DigitPrefix(s) ==
  IF s # << >> /\ Head(s) \in Digits THEN <<Head(s)>> \o DigitPrefix(Tail(s)) ELSE << >>
RECURSIVE DropZeros(_)
DropZeros(d) == IF d # << >> /\ Head(d) = "0" THEN DropZeros(Tail(d)) ELSE d
\* a <= b for digit strings of the same length
RECURSIVE DigitsLeq(_, _)
DigitsLeq(a, b) ==
  IF a = << >> THEN TRUE
  ELSE IF DigitVal[Head(a)] # DigitVal[Head(b)] THEN DigitVal[Head(a)] < DigitVal[Head(b)]
  ELSE DigitsLeq(Tail(a), Tail(b))
IntMaxDigits == <<"2", "1", "4", "7", "4", "8", "3", "6", "4", "7">>
IntMinDigits == <<"2", "1", "4", "7", "4", "8", "3", "6", "4", "8">>
\* the digits denote a magnitude an int can hold
MagnitudeFits(d, neg) ==
  LET m == DropZeros(d) IN
    \/ Len(m) < Len(IntMaxDigits)
    \/ Len(m) = Len(IntMaxDigits) /\ DigitsLeq(m, IF neg THEN IntMinDigits ELSE IntMaxDigits)
\* the magnitude modulo 2^16
RECURSIVE MagnitudeMod(_, _)
MagnitudeMod(d, acc) ==
  IF d = << >> THEN acc
  ELSE MagnitudeMod(Tail(d), (acc * 10 + DigitVal[Head(d)]) % PortModulus)
\* the signed value modulo 2^16
ValueMod(d, neg) ==
  LET m == MagnitudeMod(d, 0) IN IF neg THEN (PortModulus - m) % PortModulus ELSE m

\* the string is a decimal integer: an optional sign, then digits to the end
IsDecimalInteger(s) ==
  Unsigned(s) # << >> /\ DigitPrefix(Unsigned(s)) = Unsigned(s)
\* the string starts, after white space and an optional sign, with a digit
LeadingDigits(s) == DigitPrefix(Unsigned(DropSpace(s)))

Rejected ==
  /\ raised.at = "L84"
  /\ ~Issued("Client")
  /\ pc \in {"catch", "done"}
  /\ Returned => Exited(2)
ConnectsTo(p) ==
  /\ raised.at # "L84"
  /\ port = p
  /\ \A i \in 1..Len(calls) : (calls[i].fn = "Client") => calls[i].args = <<argv[2], p>>

\* C10 as stated: every decimal integer given as argv[2], whatever its
\* value, is accepted and the client connects to its value modulo 65536;
\* every argv[2] that is not a decimal integer is rejected with exit code 2.
C10_AsStated ==
  (argc = 3 /\ pc # "L84") =>
    IF IsDecimalInteger(argv[3])
    THEN ConnectsTo(ValueMod(Unsigned(argv[3]), IsNegative(argv[3])))
    ELSE Rejected

\* C10 as amended: when argv[2] starts, after white space and an optional
\* sign, with digits whose value fits an int, the client connects to that
\* value modulo 65536 (no check of 0..65535; what follows the digits is
\* ignored); an argv[2] with no such digits, or whose value does not fit an
\* int, is rejected with exit code 2.
C10_PortWraps ==
  (argc = 3 /\ pc # "L84") =>
    LET t   == DropSpace(argv[3])
        d   == LeadingDigits(argv[3])
    IN IF d # << >> /\ MagnitudeFits(d, IsNegative(t))
       THEN ConnectsTo(ValueMod(d, IsNegative(t)))
       ELSE Rejected /\ raised.kind \in {"invalid_argument", "out_of_range"}

\* argv[2] = "67536": the client was created for port 2000.
C10_Witness ==
  /\ argc = 3
  /\ argv[3] = <<"6", "7", "5", "3", "6">>
  /\ \E i \in 1..Len(calls) : calls[i].fn = "Client" /\ calls[i].args[2] = DefaultPort

\* ------------------------------------------------------------------------
\* OpenDrive.cpp: properties
\* ------------------------------------------------------------------------
\* The name of the map a call is about: the name given, without the prefix
\* the editor puts before it when the build is an editor build.
NameOfMap(given) ==
  IF withEditor /\ given # << >> /\ Head(given) = "UEDPIE_0_" THEN Tail(given) ELSE given
\* <ContentDir>/Carla/Maps/OpenDrive/<name>.xodr
ConventionalPath(name) ==
  <<"Content", "/", "Carla", "/", "Maps", "/", "OpenDrive", "/">> \o name \o <<".xodr">>
\* The files called <name>.xodr in the content directory or below it.
NamedUnderContent(name) ==
  { f \in files : /\ Len(f) > Len(name) + 1
                  /\ f[1] = "Content" /\ f[2] = "/"
                  /\ f[Len(f) - Len(name) - 1] = "/"
                  /\ SubSeq(f, Len(f) - Len(name), Len(f)) = name \o <<".xodr">> }
IsListingOf(l, S) ==
  /\ Len(l) = Cardinality(S)
  /\ \A f \in S : \E i \in 1..Len(l) : l[i] = f

\* C4 as stated, <name> being the map name as given: when
\* <ContentDir>/Carla/Maps/OpenDrive/<name>.xodr exists, FindPathToXODRFile
\* returns exactly that path and does not search.
C4_AsStated ==
  (op.name = "FindPathToXODRFile") =>
    LET conv == ConventionalPath(op.args[1]) IN
      (conv \in files) => (ret = conv /\ ~searched /\ filesFound = << >>)

\* C4 as amended, <name> being the map name given without a leading
\* "UEDPIE_0_" when the build is an editor build: when
\* <ContentDir>/Carla/Maps/OpenDrive/<name>.xodr exists, FindPathToXODRFile
\* returns exactly that path, whatever other files called <name>.xodr the
\* content directory holds, and does not search.
C4_ConventionalPathPreferred ==
  (op.name = "FindPathToXODRFile") =>
    LET conv == ConventionalPath(NameOfMap(op.args[1])) IN
      (conv \in files) => (ret = conv /\ ~searched /\ filesFound = << >>)

\* The conventional file exists beside another file of the same name.
C4_Witness ==
  /\ op.name = "FindPathToXODRFile"
  /\ ret = ConventionalPath(NameOfMap(op.args[1]))
  /\ Cardinality(NamedUnderContent(NameOfMap(op.args[1]))) >= 2
  /\ ~searched

\* C5 as stated, <name> being the map name as given: when the conventional
\* path does not exist, FindPathToXODRFile returns the first entry of the
\* recursive search for <name>.xodr under the content directory, the empty
\* string exactly when there is no such file, and a non-empty result is a
\* file called <name>.xodr that the file system holds.
C5_AsStated ==
  (op.name = "FindPathToXODRFile") =>
    LET name == op.args[1]
        conv == ConventionalPath(name) IN
      /\ (conv \notin files) =>
           /\ searched
           /\ IsListingOf(filesFound, NamedUnderContent(name))
           /\ (filesFound # << >>) => ret = filesFound[1]
           /\ (ret = << >>) <=> (NamedUnderContent(name) = {})
      /\ (ret # << >>) => (ret \in files /\ ret \in NamedUnderContent(name))

\* C5 as amended, <name> being the map name given without a leading
\* "UEDPIE_0_" when the build is an editor build: when the conventional path
\* does not exist, FindPathToXODRFile returns the first entry of the
\* recursive search for <name>.xodr under the content directory, and the
\* empty string exactly when the search lists nothing; a non-empty result is
\* always a file called <name>.xodr that the file system holds.
C5_FirstListedOrEmpty ==
  (op.name = "FindPathToXODRFile") =>
    LET name == NameOfMap(op.args[1])
        conv == ConventionalPath(name) IN
      /\ (conv \notin files) =>
           /\ searched
           /\ IsListingOf(filesFound, NamedUnderContent(name))
           /\ (filesFound # << >>) => ret = filesFound[1]
           /\ (ret = << >>) <=> (filesFound = << >>)
           /\ (ret = << >>) <=> (NamedUnderContent(name) = {})
      /\ (ret # << >>) => (ret \in files /\ ret \in NamedUnderContent(name))

\* The search listed two files and the first one was returned.
C5_Witness ==
  /\ op.name = "FindPathToXODRFile"
  /\ searched
  /\ Len(filesFound) >= 2
  /\ ret = filesFound[1]
  /\ ret # filesFound[2]

\* C6: LoadXODR, GetXODR and GetXODRByPath report every failure by returning
\* an empty string and emitting an error log line, both when no .xodr file is
\* found and when the file found cannot be read.
C6_FailuresReported ==
  (op.name \in {"LoadXODR", "GetXODR", "GetXODRByPath"}
     /\ (located = << >> \/ loaded = "failed")) =>
    /\ ret = << >>
    /\ \E i \in 1..Len(log) : log[i].level = "Error"

====
